---- MODULE Spec2Model ----
(***************************************************************************)
(* Model of the Subamerica relay (src/server.js): the in-memory token      *)
(* store with its periodic prune, the now-playing singleton, the           *)
(* /offer/active handler with its awaited catalog call, the two redemption *)
(* routes, and the one-shot /resolve/stream handler.                       *)
(*                                                                         *)
(* Time is counted in units of one prune interval (60 s, server.js:64).    *)
(* The ts field of nowPlaying, which no handler reads, is left out.        *)
(* Strings that the code takes apart (URL paths, stream keys) are          *)
(* sequences of atoms; an atom is "/", "-", or a run of other characters.  *)
(***************************************************************************)
EXTENDS Integers, Sequences, FiniteSets, TLC

VARIABLES now, nextSweep, nowPlaying, tokenStore, offer, resp,
          m3u8, livepushToken, upstream, resolve

vars == <<now, nextSweep, nowPlaying, tokenStore, offer, resp,
          m3u8, livepushToken, upstream, resolve>>

storeVars == <<now, nextSweep, nowPlaying, tokenStore, offer, resp>>
resolveVars == <<m3u8, livepushToken, upstream, resolve>>

(* ------------------------------ bounds -------------------------------- *)
MaxTime == 3
NumTokens == 2
MaxPathLen == 7
MaxDirLen == 3

(* --------------------------- configuration ---------------------------- *)
\* SHORT_TOKEN_TTL_SEC=120, i.e. two prune intervals
SHORT_TTL_MS == 2
\* setInterval(pruneTokens, 60 * 1000): one time unit
SweepInterval == 1

NULL == "<null>"
Missing == "<missing>"

\* sku_map.json: { "colleenanthony": "0002" }
skuMap == [a \in {"colleenanthony"} |-> "0002"]

\* names every plain object inherits from Object.prototype
ObjectPrototypeKeys == {"constructor"}

\* artist ids a POST /nowplaying body can carry
ArtistIds == {"colleenanthony", "unlisted", "constructor"}
ArtistNames == {"Colleen"}

Tokens == 1..NumTokens
NoToken == 0

\* prod.id as the catalog reports it; 0 stands for a missing or zero id
ProductIds == {0, 42, 43}

\* one purchasable product per id, and one product for each ground of refusal
Products ==
    {[id |-> i, type |-> "simple", stock_status |-> "instock"] : i \in ProductIds}
    \cup {[id |-> 42, type |-> "variable", stock_status |-> "instock"],
          [id |-> 42, type |-> "simple", stock_status |-> "outofstock"]}

\* what `await fetch(...)` / `await r.json()` can deliver to /offer/active
CatalogOutcomes ==
    {[kind |-> "throw", list |-> <<>>], [kind |-> "nonlist", list |-> <<>>],
     [kind |-> "list", list |-> <<>>]}
    \cup {[kind |-> "list", list |-> <<p>>] : p \in Products}

(* ----------------------------- responses ------------------------------ *)
NoResp == [route |-> "none", status |-> 0, token |-> NoToken, visible |-> FALSE,
           artist_id |-> NULL, artist_name |-> NULL, product_id |-> 0,
           url |-> <<>>]

Respond(route, status) == [NoResp EXCEPT !.route = route, !.status = status]

\* `${SHOP_BASE}/?add-to-cart=${rec.product_id}&quantity=1`
CartUrl(product_id) ==
    <<"SHOP_BASE", "/?", "add-to-cart=", ToString(product_id), "&", "quantity=1">>

\* res.json({ overlay: { visible: false, ttlSec: OFFER_TTL_SEC } })
NoOffer == Respond("offer", 200)

(* ---------------------------- token store ----------------------------- *)
\* the write is lost
MapSet_dropped(store, tok, rec) == store

\* tokenStore.set(token, rec)
MapSet(store, tok, rec) ==
    [t \in DOMAIN store \cup {tok} |-> IF t = tok THEN rec ELSE store[t]]

\* tokenStore.delete(tok) for every tok in dead
MapDelete(store, dead) == [t \in DOMAIN store \ dead |-> store[t]]

\* tokenStore.get(token) is truthy
MapHas(store, tok) == tok \in DOMAIN store

\* the TTL taken in seconds where the clock counts milliseconds
PruneTest_seconds(t, obj) == t - obj.createdAt > SHORT_TTL_MS \div 1000

\* the test of pruneTokens: now - obj.createdAt > SHORT_TTL_MS
PruneTest(t, obj) == t - obj.createdAt > SHORT_TTL_MS

\* the loop stops after its first delete
pruneTokens_firstOnly(store, t) ==
    LET dead == {tok \in DOMAIN store : PruneTest(t, store[tok])}
    IN IF dead = {} THEN store
       ELSE MapDelete(store, {CHOOSE tok \in dead : \A o \in dead : tok <= o})

pruneTokens(store, t) ==
    MapDelete(store, {tok \in DOMAIN store : PruneTest(t, store[tok])})

\* skuMap[artistId]: own keys first, then the prototype chain
SkuLookup(artistId) ==
    IF artistId \in DOMAIN skuMap THEN skuMap[artistId]
    ELSE IF artistId \in ObjectPrototypeKeys THEN "[inherited]"
    ELSE Missing

\* a || b on strings, with null/undefined/'' falsy
OrElse(a, b) == IF a \in {NULL, Missing, ""} THEN b ELSE a


(* ------------------------- /resolve/stream ---------------------------- *)
\* atoms of a URL path: the separator, the dash, the marker text, the same
\* text in upper case, and one other run of characters
Alphabet == {"/", "-", "live_cdn", "LIVE_CDN", "k"}

StrNull == <<"<null>">>

AllPaths == UNION {[1..n -> Alphabet] : n \in 0..MaxPathLen}

\* request bodies: no m3u8, an m3u8 that `new URL` rejects, or a URL whose
\* pathname is "/" followed by path
AllInputs ==
    {[kind |-> "missing", path |-> <<>>], [kind |-> "malformed", path |-> <<>>]}
    \cup {[kind |-> "url", path |-> p] : p \in AllPaths}

\* u.pathname
Pathname(u) == <<"/">> \o u.path

\* position of the first "/" in s, 0 if there is none
FirstSlash(s) ==
    IF \E i \in 1..Len(s) : s[i] = "/"
    THEN CHOOSE i \in 1..Len(s) : s[i] = "/" /\ \A j \in 1..(i - 1) : s[j] # "/"
    ELSE 0

RECURSIVE Split(_)
\* s.split('/')
Split(s) ==
    IF FirstSlash(s) = 0 THEN <<s>>
    ELSE <<SubSeq(s, 1, FirstSlash(s) - 1)>>
         \o Split(SubSeq(s, FirstSlash(s) + 1, Len(s)))

\* .filter(Boolean)
FilterBoolean(parts) == SelectSeq(parts, LAMBDA p : p # <<>>)

\* parts.indexOf(x), counted from 0
IndexOf(parts, x) ==
    IF \E i \in 1..Len(parts) : parts[i] = x
    THEN (CHOOSE i \in 1..Len(parts) :
             parts[i] = x /\ \A j \in 1..(i - 1) : parts[j] # x) - 1
    ELSE -1

\* parts[i], counted from 0
At(parts, i) == parts[i + 1]

\* key.replace(/-$/, ''): one dash only
StripDashes_once(key) ==
    IF key # <<>> /\ key[Len(key)] = "-"
    THEN SubSeq(key, 1, Len(key) - 1)
    ELSE key

RECURSIVE StripDashes(_)
\* key.replace(/-+$/, '')
StripDashes(key) ==
    IF key # <<>> /\ key[Len(key)] = "-"
    THEN StripDashes(SubSeq(key, 1, Len(key) - 1))
    ELSE key

\* the try block of /resolve/stream: <<out.appId, out.streamKey>>
ParsePath(u) ==
    LET parts == FilterBoolean(Split(Pathname(u)))
        idx == IndexOf(parts, <<"live_cdn">>)
    IN IF idx >= 0 /\ Len(parts) >= idx + 3
       THEN <<At(parts, idx + 1), StripDashes(At(parts, idx + 2))>>
       ELSE <<StrNull, StrNull>>

\* only the application id is tested
ParseRejected_appOnly(appId, streamKey) == appId \in {StrNull, <<>>}

\* !out.appId || !out.streamKey
ParseRejected(appId, streamKey) ==
    appId \in {StrNull, <<>>} \/ streamKey \in {StrNull, <<>>}


\* stream keys of directory records; <<>> is a missing or empty streamKey
DirKeys == {<<"k">>, <<"k", "-", "-">>, <<"K">>, <<>>}
\* ids of directory records; Missing is an absent id
DirIds == {"id1", "id2", Missing}
DirRecords == [streamKey : DirKeys, id : DirIds]
Directories == UNION {[1..n -> DirRecords] : n \in 0..MaxDirLen}

\* what `await fetch(...)` / `await r.json()` can deliver to /resolve/stream
DirectoryOutcomes ==
    {[kind |-> "throw", list |-> <<>>], [kind |-> "nonlist", list |-> <<>>]}
    \cup {[kind |-> "list", list |-> d] : d \in Directories}

\* playlist URLs used to query the directory
QueryInputs ==
    {[kind |-> "url", path |-> <<"live_cdn", "/", "app", "/">> \o key \o <<"/", "index.m3u8">>] :
        key \in {<<"k">>, <<"k", "-">>, <<"K">>}}

\* (s.streamKey || '').replace(/-+$/, '')
DirKeyOf(s) == StripDashes(s.streamKey)

\* the predicate handed to arr.find
FindTest(s, streamKey) == DirKeyOf(s) = streamKey

\* the last record passing the test is taken
Find_last(arr, streamKey) ==
    IF \E i \in 1..Len(arr) : FindTest(arr[i], streamKey)
    THEN <<arr[CHOOSE i \in 1..Len(arr) :
                 /\ FindTest(arr[i], streamKey)
                 /\ \A j \in (i + 1)..Len(arr) : ~FindTest(arr[j], streamKey)]>>
    ELSE <<>>

\* arr.find(...): <<the first record passing the test>>, or <<>> for undefined
Find(arr, streamKey) ==
    IF \E i \in 1..Len(arr) : FindTest(arr[i], streamKey)
    THEN <<arr[CHOOSE i \in 1..Len(arr) :
                 /\ FindTest(arr[i], streamKey)
                 /\ \A j \in 1..(i - 1) : ~FindTest(arr[j], streamKey)]>>
    ELSE <<>>

(* ------------------------------- Init --------------------------------- *)
\* seen is history: the artist_name values NowPlayingState held together with
\* artist_id = artistId while the request was in flight
IdleOffer == [pc |-> "idle", artistId |-> NULL, sku |-> Missing, seen |-> {}]
IdleResolve == [pc |-> "idle", status |-> 0, error |-> NULL,
                appId |-> StrNull, streamKey |-> StrNull, streamId |-> NULL,
                streamsCount |-> -1, match |-> <<>>, rawError |-> NULL]

StoreInit ==
    /\ now = 0
    /\ nextSweep = SweepInterval
    /\ nowPlaying = [artist_id |-> NULL, artist_name |-> NULL]
    /\ tokenStore = << >>
    /\ offer = IdleOffer
    /\ resp = NoResp

Init ==
    /\ StoreInit
    /\ m3u8 = [kind |-> "missing", path |-> <<>>]
    /\ livepushToken = FALSE
    /\ upstream = [kind |-> "throw", list |-> <<>>]
    /\ resolve = IdleResolve

(* ------------------------------ actions ------------------------------- *)
\* the clock advances
Tick ==
    /\ now < MaxTime
    /\ now' = now + 1
    /\ resp' = NoResp
    /\ UNCHANGED <<nextSweep, nowPlaying, tokenStore, offer>>
    /\ UNCHANGED resolveVars

\* a one-shot timer: the prune runs once and is never scheduled again
Sweep_once ==
    /\ now >= nextSweep
    /\ tokenStore' = pruneTokens(tokenStore, now)
    /\ nextSweep' = MaxTime + SweepInterval
    /\ resp' = NoResp
    /\ UNCHANGED <<now, nowPlaying, offer>>
    /\ UNCHANGED resolveVars

\* the interval timer fires pruneTokens
Sweep ==
    /\ now >= nextSweep
    /\ tokenStore' = pruneTokens(tokenStore, now)
    /\ nextSweep' = now + SweepInterval
    /\ resp' = NoResp
    /\ UNCHANGED <<now, nowPlaying, offer>>
    /\ UNCHANGED resolveVars

\* the update is merged into the old state: a body without artist_name keeps
\* the name that was there
PostNowPlaying_merge(artist_id, artist_name) ==
    /\ IF OrElse(artist_id, NULL) = NULL
       THEN /\ resp' = Respond("nowplaying", 400)
            /\ UNCHANGED nowPlaying
       ELSE /\ nowPlaying' = [artist_id |-> artist_id,
                              artist_name |-> OrElse(artist_name,
                                                OrElse(nowPlaying.artist_name, artist_id))]
            /\ resp' = [Respond("nowplaying", 200) EXCEPT
                          !.artist_id = nowPlaying'.artist_id,
                          !.artist_name = nowPlaying'.artist_name]
    /\ offer' = IF offer.pc = "await" /\ nowPlaying'.artist_id = offer.artistId
                THEN [offer EXCEPT !.seen = @ \cup {nowPlaying'.artist_name}]
                ELSE offer
    /\ UNCHANGED <<now, nextSweep, tokenStore>>
    /\ UNCHANGED resolveVars

\* POST /nowplaying
PostNowPlaying(artist_id, artist_name) ==
    /\ IF OrElse(artist_id, NULL) = NULL
       THEN /\ resp' = Respond("nowplaying", 400)
            /\ UNCHANGED nowPlaying
       ELSE /\ nowPlaying' = [artist_id |-> artist_id,
                              artist_name |-> OrElse(artist_name, artist_id)]
            /\ resp' = [Respond("nowplaying", 200) EXCEPT
                          !.artist_id = nowPlaying'.artist_id,
                          !.artist_name = nowPlaying'.artist_name]
    /\ offer' = IF offer.pc = "await" /\ nowPlaying'.artist_id = offer.artistId
                THEN [offer EXCEPT !.seen = @ \cup {nowPlaying'.artist_name}]
                ELSE offer
    /\ UNCHANGED <<now, nextSweep, tokenStore>>
    /\ UNCHANGED resolveVars

\* GET /offer/active, up to the awaited catalog fetch
OfferStart ==
    /\ offer.pc = "idle"
    /\ LET artistId == nowPlaying.artist_id
           sku == SkuLookup(artistId)
       IN IF artistId = NULL \/ sku = Missing
          THEN /\ resp' = NoOffer
               /\ UNCHANGED offer
          ELSE /\ offer' = [pc |-> "await", artistId |-> artistId, sku |-> sku,
                             seen |-> {nowPlaying.artist_name}]
               /\ resp' = NoResp
    /\ UNCHANGED <<now, nextSweep, nowPlaying, tokenStore>>
    /\ UNCHANGED resolveVars

\* the product picked from the catalog reply: arr[0] of a non-empty list
Picked(outcome) ==
    IF outcome.kind = "list" /\ Len(outcome.list) > 0
    THEN {outcome.list[1]} ELSE {}

\* !prod || !prod.id || prod.type === 'variable' || prod.stock_status !== 'instock'
Rejected(picked) ==
    \/ picked = {}
    \/ \E prod \in picked :
          prod.id = 0 \/ prod.type = "variable" \/ prod.stock_status # "instock"

\* the artist is read again when the token is stored
OfferFinish_rereadsArtist(outcome, token) ==
    /\ offer.pc = "await"
    /\ offer' = IdleOffer
    /\ IF outcome.kind = "throw" \/ Rejected(Picked(outcome))
       THEN /\ resp' = NoOffer
            /\ UNCHANGED tokenStore
       ELSE LET prod == CHOOSE p \in Picked(outcome) : TRUE
            IN /\ tokenStore' = MapSet(tokenStore, token,
                                  [product_id |-> prod.id,
                                   artist_id |-> nowPlaying.artist_id,
                                   createdAt |-> now])
               /\ resp' = [NoOffer EXCEPT
                             !.visible = TRUE,
                             !.token = token,
                             !.artist_id = offer.artistId,
                             !.artist_name = OrElse(nowPlaying.artist_name, offer.artistId),
                             !.product_id = prod.id,
                             !.url = CartUrl(prod.id)]
    /\ UNCHANGED <<now, nextSweep, nowPlaying>>
    /\ UNCHANGED resolveVars

\* GET /offer/active, from the catalog's reply to the response
OfferFinish(outcome, token) ==
    /\ offer.pc = "await"
    /\ offer' = IdleOffer
    /\ IF outcome.kind = "throw" \/ Rejected(Picked(outcome))
       THEN /\ resp' = NoOffer
            /\ UNCHANGED tokenStore
       ELSE LET prod == CHOOSE p \in Picked(outcome) : TRUE
            IN /\ tokenStore' = MapSet(tokenStore, token,
                                  [product_id |-> prod.id,
                                   artist_id |-> offer.artistId,
                                   createdAt |-> now])
               /\ resp' = [NoOffer EXCEPT
                             !.visible = TRUE,
                             !.token = token,
                             !.artist_id = offer.artistId,
                             !.artist_name = OrElse(nowPlaying.artist_name, offer.artistId),
                             !.product_id = prod.id,
                             !.url = CartUrl(prod.id)]
    /\ UNCHANGED <<now, nextSweep, nowPlaying>>
    /\ UNCHANGED resolveVars

\* the token is consumed by the redirect
GetB_single_use(token) ==
    /\ IF ~MapHas(tokenStore, token)
       THEN /\ resp' = [Respond("b", 404) EXCEPT !.token = token]
            /\ UNCHANGED tokenStore
       ELSE /\ resp' = [Respond("b", 200) EXCEPT
                          !.token = token,
                          !.product_id = tokenStore[token].product_id,
                          !.url = CartUrl(tokenStore[token].product_id)]
            /\ tokenStore' = MapDelete(tokenStore, {token})
    /\ UNCHANGED <<now, nextSweep, nowPlaying, offer>>
    /\ UNCHANGED resolveVars

\* GET /b/:token
GetB(token) ==
    /\ IF ~MapHas(tokenStore, token)
       THEN resp' = [Respond("b", 404) EXCEPT !.token = token]
       ELSE resp' = [Respond("b", 200) EXCEPT
                        !.token = token,
                        !.product_id = tokenStore[token].product_id,
                        !.url = CartUrl(tokenStore[token].product_id)]
    /\ UNCHANGED <<now, nextSweep, nowPlaying, tokenStore, offer>>
    /\ UNCHANGED resolveVars

\* GET /qr/:token.png; rendered says whether QRCode.toBuffer returned
GetQr(token, rendered) ==
    /\ IF ~MapHas(tokenStore, token)
       THEN resp' = [Respond("qr", 404) EXCEPT !.token = token]
       ELSE resp' = [Respond("qr", IF rendered THEN 200 ELSE 500) EXCEPT
                        !.token = token]
    /\ UNCHANGED <<now, nextSweep, nowPlaying, tokenStore, offer>>
    /\ UNCHANGED resolveVars

Next ==
    \/ Tick
    \/ Sweep
    \/ \E a \in ArtistIds \cup {Missing}, n \in ArtistNames \cup {Missing} :
          PostNowPlaying(a, n)
    \/ OfferStart
    \/ \E o \in CatalogOutcomes, t \in Tokens : OfferFinish(o, t)
    \/ \E t \in Tokens : GetB(t)
    \/ \E t \in Tokens, r \in BOOLEAN : GetQr(t, r)

Spec == Init /\ [][Next]_vars


(* ------------------------ /resolve/stream handler --------------------- *)
ResolveInit ==
    /\ StoreInit
    /\ resolve = IdleResolve
    /\ \/ /\ m3u8 \in AllInputs
          /\ livepushToken \in BOOLEAN
          /\ upstream = [kind |-> "list", list |-> <<[streamKey |-> <<"k">>, id |-> "id1"]>>]
       \/ /\ m3u8 \in QueryInputs
          /\ livepushToken = TRUE
          /\ upstream \in DirectoryOutcomes

\* the directory is asked whether or not a credential is configured
ResolveStart_alwaysLooksUp ==
    /\ resolve.pc = "idle"
    /\ IF m3u8.kind = "missing"
       THEN resolve' = [IdleResolve EXCEPT !.pc = "done", !.status = 400,
                                           !.error = "m3u8 required"]
       ELSE IF m3u8.kind = "malformed"
       THEN resolve' = [IdleResolve EXCEPT !.pc = "done", !.status = 400,
                                           !.error = "invalid m3u8 url"]
       ELSE LET out == ParsePath(m3u8)
            IN IF ParseRejected(out[1], out[2])
               THEN resolve' = [IdleResolve EXCEPT
                                  !.pc = "done", !.status = 422,
                                  !.error = "could not parse appId/streamKey from m3u8",
                                  !.appId = out[1], !.streamKey = out[2]]
               ELSE resolve' = [IdleResolve EXCEPT
                                  !.pc = "await",
                                  !.appId = out[1], !.streamKey = out[2]]
    /\ UNCHANGED <<m3u8, livepushToken, upstream>>
    /\ UNCHANGED storeVars

\* POST /resolve/stream, up to the awaited directory fetch
ResolveStart ==
    /\ resolve.pc = "idle"
    /\ IF m3u8.kind = "missing"
       THEN resolve' = [IdleResolve EXCEPT !.pc = "done", !.status = 400,
                                           !.error = "m3u8 required"]
       ELSE IF m3u8.kind = "malformed"
       THEN resolve' = [IdleResolve EXCEPT !.pc = "done", !.status = 400,
                                           !.error = "invalid m3u8 url"]
       ELSE LET out == ParsePath(m3u8)
            IN IF ParseRejected(out[1], out[2])
               THEN resolve' = [IdleResolve EXCEPT
                                  !.pc = "done", !.status = 422,
                                  !.error = "could not parse appId/streamKey from m3u8",
                                  !.appId = out[1], !.streamKey = out[2]]
               ELSE resolve' = [IdleResolve EXCEPT
                                  !.pc = IF livepushToken THEN "await" ELSE "done",
                                  !.status = IF livepushToken THEN 0 ELSE 200,
                                  !.appId = out[1], !.streamKey = out[2]]
    /\ UNCHANGED <<m3u8, livepushToken, upstream>>
    /\ UNCHANGED storeVars

\* with no match in the directory, the current artist stands in as stream id
ResolveFinish_readsNowPlaying ==
    /\ resolve.pc = "await"
    /\ IF upstream.kind = "throw"
       THEN resolve' = [resolve EXCEPT !.pc = "done", !.status = 200,
                                       !.rawError = "livepush_lookup_failed"]
       ELSE IF upstream.kind # "list"
       THEN resolve' = [resolve EXCEPT !.pc = "done", !.status = 200,
                                       !.streamsCount = 0]
       ELSE LET found == Find(upstream.list, resolve.streamKey)
            IN resolve' = [resolve EXCEPT
                             !.pc = "done", !.status = 200,
                             !.streamsCount = Len(upstream.list),
                             !.streamId = IF found = <<>> THEN nowPlaying.artist_id
                                          ELSE OrElse(found[1].id, NULL),
                             !.match = found]
    /\ UNCHANGED <<m3u8, livepushToken, upstream>>
    /\ UNCHANGED storeVars

\* POST /resolve/stream, from the directory's reply to the response
ResolveFinish ==
    /\ resolve.pc = "await"
    /\ IF upstream.kind = "throw"
       THEN resolve' = [resolve EXCEPT !.pc = "done", !.status = 200,
                                       !.rawError = "livepush_lookup_failed"]
       ELSE IF upstream.kind # "list"
       THEN resolve' = [resolve EXCEPT !.pc = "done", !.status = 200,
                                       !.streamsCount = 0]
       ELSE LET found == Find(upstream.list, resolve.streamKey)
            IN resolve' = [resolve EXCEPT
                             !.pc = "done", !.status = 200,
                             !.streamsCount = Len(upstream.list),
                             !.streamId = IF found = <<>> THEN NULL
                                          ELSE OrElse(found[1].id, NULL),
                             !.match = found]
    /\ UNCHANGED <<m3u8, livepushToken, upstream>>
    /\ UNCHANGED storeVars

ResolveNext == ResolveStart \/ ResolveFinish

ResolveSpec == ResolveInit /\ [][ResolveNext]_vars

(* ------- /resolve/stream beside /nowplaying and /offer/active --------- *)
\* directory replies with at most one record
ShortDirectoryOutcomes == {o \in DirectoryOutcomes : Len(o.list) <= 1}

\* one resolve request; its inputs are drawn here, the stores start empty
PipelineInit ==
    /\ StoreInit
    /\ resolve = IdleResolve
    /\ \/ /\ m3u8 \in QueryInputs \cup {[kind |-> "missing", path |-> <<>>]}
          /\ livepushToken = FALSE
          /\ upstream = [kind |-> "list", list |-> <<[streamKey |-> <<"k">>, id |-> "id1"]>>]
       \/ /\ m3u8 \in QueryInputs
          /\ livepushToken = TRUE
          /\ upstream \in ShortDirectoryOutcomes

\* the resolve request runs while now-playing updates and offers go on
PipelineNext ==
    \/ ResolveStart
    \/ ResolveFinish
    \/ \E a \in ArtistIds \cup {Missing}, n \in ArtistNames \cup {Missing} :
          PostNowPlaying(a, n)
    \/ OfferStart
    \/ \E o \in CatalogOutcomes, t \in Tokens : OfferFinish(o, t)

PipelineSpec == PipelineInit /\ [][PipelineNext]_vars

\* the timer and the clock keep running; no fairness for the upstream replies
FairSpec == Spec /\ WF_vars(Tick) /\ WF_vars(Sweep)

TypeOK ==
    /\ now \in 0..MaxTime
    /\ DOMAIN tokenStore \subseteq Tokens
    /\ \A t \in DOMAIN tokenStore : tokenStore[t].createdAt <= now

(* ======================= token store and offers ======================= *)
Age(t) == now - tokenStore[t].createdAt
Redemptions == {"b", "qr"}

\* C1: a redemption of a token whose age has reached the TTL answers 404,
\* whether or not the prune has removed the entry yet.
C1_ExpiredNeverResolves ==
    (resp.route \in Redemptions /\ resp.token \in DOMAIN tokenStore
        /\ Age(resp.token) >= SHORT_TTL_MS)
    => resp.status = 404

\* C2: no step removes an entry that is younger than the TTL when the step
\* ends, a freshly minted token is in the store, and a redemption of an entry
\* younger than the TTL resolves (/b answers 200, /qr does not answer 404).
C2_FreshTokenResolves ==
    [][/\ \A t \in DOMAIN tokenStore :
            now' - tokenStore[t].createdAt < SHORT_TTL_MS
            => /\ t \in DOMAIN tokenStore'
               /\ (resp'.route = "b" /\ resp'.token = t) => resp'.status = 200
               /\ (resp'.route = "qr" /\ resp'.token = t) => resp'.status # 404
       /\ (resp'.route = "offer" /\ resp'.visible)
            => resp'.token \in DOMAIN tokenStore'
      ]_vars

\* a token of age TTL - 1 is redeemed after the prune ran at this clock value
C2_Witness ==
    /\ resp.route = "b" /\ resp.status = 200
    /\ resp.token \in DOMAIN tokenStore
    /\ Age(resp.token) = SHORT_TTL_MS - 1
    /\ nextSweep > now

\* C3: a redemption changes neither the token store nor the now-playing
\* state, and a redemption of a token that is in the store resolves; so one
\* redemption never makes the next one fail.
C3_RedemptionKeepsToken ==
    [][resp'.route \in Redemptions
       => /\ tokenStore' = tokenStore
          /\ nowPlaying' = nowPlaying
          /\ resp'.token \in DOMAIN tokenStore
               => /\ resp'.status # 404
                  /\ resp'.route = "b" => resp'.status = 200
          /\ (resp.route \in Redemptions /\ resp.status = 200
                /\ resp.token = resp'.token) => resp'.status # 404
      ]_vars

\* the QR image of a token was served and the token is still in the store
C3_Witness ==
    /\ resp.route = "qr" /\ resp.status = 200
    /\ resp.token \in DOMAIN tokenStore
    /\ Age(resp.token) < SHORT_TTL_MS

\* the text add-to-cart=<product_id> occurs in url
HasAddToCart(url, product_id) ==
    \E i \in 1..(Len(url) - 1) :
        url[i] = "add-to-cart=" /\ url[i + 1] = ToString(product_id)

\* C4: when /offer/active answers visible for product P, the token of the
\* answer is in the store bound to P, and a GET /b of that token in the next
\* step answers with a redirect whose URL contains add-to-cart=P.
C4_OfferTokenRedeems ==
    [][/\ (resp'.route = "offer" /\ resp'.visible)
            => /\ resp'.token \in DOMAIN tokenStore'
               /\ tokenStore'[resp'.token].product_id = resp'.product_id
       /\ (resp.route = "offer" /\ resp.visible
             /\ resp'.route = "b" /\ resp'.token = resp.token)
            => /\ resp'.status = 200
               /\ HasAddToCart(resp'.url, resp.product_id)
      ]_vars

\* a token minted for product 42 is redeemed at the clock value of its mint
C4_Witness ==
    /\ resp.route = "b" /\ resp.status = 200
    /\ resp.token \in DOMAIN tokenStore
    /\ tokenStore[resp.token].product_id = 42
    /\ Age(resp.token) = 0
    /\ HasAddToCart(resp.url, 42)

\* the catalog cases in which no offer is to be made
Degraded(outcome) ==
    \/ outcome.kind # "list"
    \/ outcome.list = <<>>
    \/ outcome.list[1].type = "variable"
    \/ outcome.list[1].stock_status # "instock"

\* /offer/active has answered NoOffer or not answered, and minted nothing
Quiet == (resp'.route = "offer" => resp' = NoOffer) /\ tokenStore' = tokenStore

\* C5: /offer/active answers NoOffer and mints no token when no artist is
\* set, when the artist is not in the SKU map, when the catalog query fails,
\* returns a non-list or an empty list, or returns a variable or
\* out-of-stock product.
C5_DegradesToNoOffer ==
    [][/\ (OfferStart /\ (nowPlaying.artist_id = NULL
                            \/ nowPlaying.artist_id \notin DOMAIN skuMap))
            => Quiet
       /\ \A o \in CatalogOutcomes, t \in Tokens :
            (OfferFinish(o, t) /\ (offer.artistId \notin DOMAIN skuMap \/ Degraded(o)))
            => (resp' = NoOffer /\ tokenStore' = tokenStore)
      ]_vars

\* the same, for artist ids that name nothing inherited by the SKU map object
DegradesForOwnKeys ==
    [][/\ (OfferStart /\ nowPlaying.artist_id \notin ObjectPrototypeKeys
             /\ (nowPlaying.artist_id = NULL
                   \/ nowPlaying.artist_id \notin DOMAIN skuMap))
            => resp' = NoOffer /\ tokenStore' = tokenStore /\ offer' = offer
       /\ \A o \in CatalogOutcomes, t \in Tokens :
            (OfferFinish(o, t) /\ Degraded(o))
            => (resp' = NoOffer /\ tokenStore' = tokenStore)
      ]_vars

\* C6: a /offer/active request that has issued its catalog query is
\* eventually answered, even if the catalog never replies.
C6_OutboundCallsBounded == (offer.pc = "await") ~> (offer.pc = "idle")

\* C7: the artist id and the artist name of a visible /offer/active answer
\* are those of one NowPlayingState value that was current while the request
\* was in flight.
C7_NoTornRead ==
    [][(offer.pc = "await" /\ resp'.route = "offer" /\ resp'.visible)
       => /\ resp'.artist_id = offer.artistId
          /\ resp'.artist_name \in offer.seen
      ]_vars

(* ========================== /resolve/stream =========================== *)
\* the positions of p at which a path segment begins
SegmentStarts(p) ==
    {i \in 1..Len(p) : p[i] # "/" /\ (i = 1 \/ p[i - 1] = "/")}

\* the position at which the segment beginning at i ends
SegmentEnd(p, i) ==
    CHOOSE j \in i..Len(p) :
        /\ \A k \in i..j : p[k] # "/"
        /\ j = Len(p) \/ p[j + 1] = "/"

\* the path segments of p: its maximal runs of atoms other than "/", in order
Segments(p) ==
    LET starts == SegmentStarts(p)
    IN [n \in 1..Cardinality(starts) |->
          LET i == CHOOSE i \in starts : Cardinality({q \in starts : q < i}) = n - 1
          IN SubSeq(p, i, SegmentEnd(p, i))]

\* the number, counted from 0, of the first segment that is exactly live_cdn;
\* -1 if there is none
MarkerAt(segs) ==
    LET hits == {n \in 1..Len(segs) : segs[n] = <<"live_cdn">>}
    IN IF hits = {} THEN -1 ELSE (CHOOSE n \in hits : \A m \in hits : n <= m) - 1

\* key without its trailing run of dashes
WithoutTrailingDashes(key) ==
    SubSeq(key, 1, CHOOSE n \in 0..Len(key) :
                      /\ n = 0 \/ key[n] # "-"
                      /\ \A j \in (n + 1)..Len(key) : key[j] = "-")

\* two segments follow the marker
HasAppAndKey(segs) == MarkerAt(segs) >= 0 /\ Len(segs) >= MarkerAt(segs) + 3

\* the <app> and the <key> segment of .../live_cdn/<app>/<key>...
AppOf(segs) == segs[MarkerAt(segs) + 2]
KeyOf(segs) == segs[MarkerAt(segs) + 3]

\* .../live_cdn/<app>/<key>... with a key that is not all dashes
HasLayout(segs) ==
    HasAppAndKey(segs) /\ WithoutTrailingDashes(KeyOf(segs)) # <<>>

\* C8: for a URL whose path has the segment live_cdn (the first such segment
\* is the marker) followed by an <app> segment and a <key> segment that is
\* not empty once its trailing dashes are dropped, the resolver does not
\* reject the request and reports appId = <app> and streamKey = <key> without
\* its whole trailing run of dashes, whatever the credential and the
\* directory are.
C8_ResolverExtracts ==
    (resolve.pc # "idle" /\ m3u8.kind = "url")
    => LET segs == Segments(m3u8.path)
       IN HasLayout(segs)
          => /\ resolve.status \in {0, 200}
             /\ resolve.pc = "done" => resolve.status = 200
             /\ resolve.appId = AppOf(segs)
             /\ resolve.streamKey = WithoutTrailingDashes(KeyOf(segs))

\* /live_cdn/k/k-- resolves to the stream key k
C8_Witness ==
    /\ resolve.pc = "done" /\ resolve.status = 200
    /\ m3u8.path = <<"live_cdn", "/", "k", "/", "k", "-", "-">>
    /\ resolve.appId = <<"k">> /\ resolve.streamKey = <<"k">>

\* C9: a well-formed URL with no segment exactly equal to live_cdn, with fewer
\* than two segments after the marker, or with a key that is empty once its
\* dashes are dropped is answered 422 together with what was parsed; a missing
\* or malformed URL is answered 400.
C9_UnrecognizedLayout ==
    resolve.pc = "done"
    => IF m3u8.kind = "url"
       THEN LET segs == Segments(m3u8.path)
            IN ~HasLayout(segs)
               => /\ resolve.status = 422
                  /\ resolve.streamId = NULL
                  /\ IF HasAppAndKey(segs)
                     THEN resolve.appId = AppOf(segs) /\ resolve.streamKey = <<>>
                     ELSE resolve.appId = StrNull /\ resolve.streamKey = StrNull
       ELSE /\ resolve.status = 400
            /\ resolve.appId = StrNull /\ resolve.streamKey = StrNull

\* /live_cdn/k/-- is answered 422 with the application id and an empty key
C9_Witness ==
    /\ resolve.pc = "done" /\ resolve.status = 422
    /\ m3u8.path = <<"live_cdn", "/", "k", "/", "-", "-">>
    /\ resolve.appId = <<"k">> /\ resolve.streamKey = <<>>

\* positions of the directory records whose key, without its trailing dashes,
\* is exactly the query key
Matches(list, key) ==
    {i \in 1..Len(list) : WithoutTrailingDashes(list[i].streamKey) = key}

\* C10: for a directory list, the answer names the earliest record whose
\* stream key without its trailing dashes equals the query key exactly, the
\* stream id is that record's id (null if the record carries none), the count
\* is the length of the list, and the stream id is null when no record matches.
C10_FirstMatchWins ==
    (resolve.pc = "done" /\ resolve.status = 200 /\ livepushToken
        /\ upstream.kind = "list")
    => LET hits == Matches(upstream.list, resolve.streamKey)
       IN /\ resolve.streamsCount = Len(upstream.list)
          /\ IF hits = {}
             THEN resolve.match = <<>> /\ resolve.streamId = NULL
             ELSE LET first == CHOOSE i \in hits : \A j \in hits : i <= j
                  IN /\ resolve.match = <<upstream.list[first]>>
                     /\ resolve.streamId =
                          IF upstream.list[first].id = Missing THEN NULL
                          ELSE upstream.list[first].id

\* the directory [k-- id1, k id2] queried with k answers id1
C10_Witness ==
    /\ resolve.pc = "done" /\ resolve.status = 200
    /\ resolve.streamKey = <<"k">>
    /\ upstream.kind = "list"
    /\ upstream.list = <<[streamKey |-> <<"k", "-", "-">>, id |-> "id1"],
                         [streamKey |-> <<"k">>, id |-> "id2"]>>
    /\ resolve.streamId = "id1"

\* the request passed the parser and the directory was asked
LookedUp == resolve.pc = "done" /\ resolve.status = 200 /\ livepushToken

\* C11: when the directory fetch fails or returns a non-list, the request is
\* answered 200 with the parsed appId and streamKey, a null stream id, and
\* the soft failure livepush_lookup_failed.
C11_SoftLookupFailure ==
    (LookedUp /\ upstream.kind \in {"throw", "nonlist"})
    => /\ <<resolve.appId, resolve.streamKey>> = ParsePath(m3u8)
       /\ resolve.streamId = NULL
       /\ resolve.rawError = "livepush_lookup_failed"

\* the same without the report of the failure for a non-list reply
SoftLookupFailure_throwOnly ==
    (LookedUp /\ upstream.kind \in {"throw", "nonlist"})
    => /\ <<resolve.appId, resolve.streamKey>> = ParsePath(m3u8)
       /\ resolve.streamId = NULL
       /\ resolve.match = <<>>
       /\ upstream.kind = "throw" => resolve.rawError = "livepush_lookup_failed"

(* ========================= now-playing state ========================== *)
\* C12: POST /nowplaying without an artist_id answers 400 and leaves the
\* state as it was; with an artist_id it answers 200 and the state becomes
\* exactly the update (the name defaulting to the id); no other step changes
\* the state, so it always equals the last accepted update; and a GET
\* /offer/active that starts right after an accepted update works for the
\* artist of that update.
C12_LastWriteWins ==
    [][/\ \A a \in ArtistIds \cup {Missing}, n \in ArtistNames \cup {Missing} :
            PostNowPlaying(a, n)
            => IF a = Missing
               THEN resp'.status = 400 /\ nowPlaying' = nowPlaying
               ELSE /\ resp'.status = 200
                    /\ nowPlaying' = [artist_id |-> a,
                                      artist_name |-> IF n = Missing THEN a ELSE n]
       /\ resp'.route # "nowplaying" => nowPlaying' = nowPlaying
       /\ (offer.pc = "idle" /\ offer'.pc = "await")
            => offer'.artistId = nowPlaying.artist_id
       /\ (resp.route = "nowplaying" /\ resp.status = 200 /\ OfferStart)
            => IF SkuLookup(resp.artist_id) = Missing
               THEN resp' = NoOffer
               ELSE offer'.pc = "await" /\ offer'.artistId = resp.artist_id
      ]_vars

\* an accepted update has replaced the artist that a request in flight had
\* read, name included
C12_Witness ==
    /\ resp.route = "nowplaying" /\ resp.status = 200
    /\ offer.pc = "await" /\ offer.artistId = "colleenanthony"
    /\ "Colleen" \in offer.seen
    /\ nowPlaying = [artist_id |-> "unlisted", artist_name |-> "unlisted"]

(* ============================== minting =============================== *)
\* the step is a mint: /offer/active has answered with an offer
Minted == resp'.route = "offer" /\ resp'.visible

\* C13: the token of a mint is not a key of the store before the mint, so
\* every entry that was in the store is still there with the same product,
\* artist and creation time.
C13_MintIsFresh ==
    [][Minted
       => /\ resp'.token \notin DOMAIN tokenStore
          /\ \A k \in DOMAIN tokenStore :
                k \in DOMAIN tokenStore' /\ tokenStore'[k] = tokenStore[k]
      ]_vars

\* a mint writes the entry of its own token and no other
MintTouchesOnlyItsKey ==
    [][Minted
       => /\ DOMAIN tokenStore' = DOMAIN tokenStore \cup {resp'.token}
          /\ \A k \in DOMAIN tokenStore \ {resp'.token} :
                tokenStore'[k] = tokenStore[k]
      ]_vars

(* ====================== /resolve/stream, lookup ======================= *)
\* C14: without a provider credential the handler never waits for the
\* directory, and a URL with the layout .../live_cdn/<app>/<key>... is
\* answered 200 with <app>, <key> without its trailing dashes, a null stream
\* id, and neither a count, a match nor a lookup failure.
C14_NoCredentialSkipsLookup ==
    (~livepushToken /\ resolve.pc # "idle")
    => /\ resolve.pc = "done"
       /\ m3u8.kind = "url"
            => LET segs == Segments(m3u8.path)
               IN HasLayout(segs)
                  => /\ resolve.status = 200
                     /\ resolve.appId = AppOf(segs)
                     /\ resolve.streamKey = WithoutTrailingDashes(KeyOf(segs))
                     /\ resolve.streamId = NULL
                     /\ resolve.streamsCount = -1
                     /\ resolve.match = <<>>
                     /\ resolve.rawError = NULL

\* /live_cdn/k/k is answered without a stream id although the directory has
\* a record for the key k
C14_Witness ==
    /\ ~livepushToken
    /\ resolve.pc = "done" /\ resolve.status = 200
    /\ m3u8.path = <<"live_cdn", "/", "k", "/", "k">>
    /\ resolve.streamKey = <<"k">> /\ resolve.streamId = NULL
    /\ upstream.kind = "list" /\ Matches(upstream.list, <<"k">>) # {}

(* =============================== sweep ================================ *)
\* C15: when the prune has run at clock value now, no entry of age >= TTL is
\* left, an entry of age exactly TTL included, and every entry of age < TTL
\* is still there unchanged.
C15_SweepRemovesExpired ==
    [][Sweep
       => /\ \A t \in DOMAIN tokenStore' :
                now - tokenStore'[t].createdAt < SHORT_TTL_MS
          /\ \A t \in DOMAIN tokenStore :
                now - tokenStore[t].createdAt < SHORT_TTL_MS
                => t \in DOMAIN tokenStore' /\ tokenStore'[t] = tokenStore[t]
      ]_vars

\* the same with the boundary on the other side: entries of age > TTL go,
\* entries of age <= TTL stay
SweepRemovesOlder ==
    [][Sweep
       => /\ \A t \in DOMAIN tokenStore' :
                now - tokenStore'[t].createdAt <= SHORT_TTL_MS
          /\ \A t \in DOMAIN tokenStore :
                now - tokenStore[t].createdAt <= SHORT_TTL_MS
                => t \in DOMAIN tokenStore' /\ tokenStore'[t] = tokenStore[t]
      ]_vars

\* C16: when the prune has run, running it again at the same clock value on
\* the store it left changes nothing.
C16_SweepIdempotent ==
    [][Sweep
       => /\ tokenStore' = pruneTokens(tokenStore, now)
          /\ pruneTokens(tokenStore', now') = tokenStore'
      ]_vars

\* the prune has just run and has kept an entry, one whose age is the TTL
C16_Witness ==
    /\ now > 0 /\ nextSweep = now + SweepInterval
    /\ resp = NoResp /\ offer.pc = "idle"
    /\ \E t \in DOMAIN tokenStore : Age(t) = SHORT_TTL_MS

\* the entry of token t outlives its TTL before the clock of the model stops
ExpiresInTime(t) ==
    t \in DOMAIN tokenStore /\ tokenStore[t].createdAt + SHORT_TTL_MS < MaxTime

\* C17: with the clock advancing and the prune timer firing, and with no
\* request needed after the mint, every entry whose TTL runs out before the
\* clock of the model stops is eventually removed from the store (or replaced
\* by a later mint of the same token).
C17_EventuallyRemoved ==
    \A t \in Tokens : ExpiresInTime(t) ~> ~ExpiresInTime(t)

\* an entry older than its TTL is still in the store and the prune is due
C17_Witness ==
    /\ now >= nextSweep
    /\ \E t \in DOMAIN tokenStore : ExpiresInTime(t) /\ Age(t) > SHORT_TTL_MS

(* ===================== /resolve/stream, isolation ===================== *)
\* the answer to a request as its body, the credential and the directory's
\* reply determine it
Answer(m, credential, directory) ==
    IF m.kind = "missing"
    THEN [IdleResolve EXCEPT !.pc = "done", !.status = 400, !.error = "m3u8 required"]
    ELSE IF m.kind = "malformed"
    THEN [IdleResolve EXCEPT !.pc = "done", !.status = 400, !.error = "invalid m3u8 url"]
    ELSE LET out == ParsePath(m)
             parsed == [IdleResolve EXCEPT !.pc = "done", !.status = 200,
                                           !.appId = out[1], !.streamKey = out[2]]
         IN IF ParseRejected(out[1], out[2])
            THEN [parsed EXCEPT !.status = 422,
                                !.error = "could not parse appId/streamKey from m3u8"]
            ELSE IF ~credential THEN parsed
            ELSE IF directory.kind = "throw"
            THEN [parsed EXCEPT !.rawError = "livepush_lookup_failed"]
            ELSE IF directory.kind # "list"
            THEN [parsed EXCEPT !.streamsCount = 0]
            ELSE LET hits == Matches(directory.list, out[2])
                     first == CHOOSE i \in hits : \A j \in hits : i <= j
                 IN IF hits = {}
                    THEN [parsed EXCEPT !.streamsCount = Len(directory.list)]
                    ELSE [parsed EXCEPT
                            !.streamsCount = Len(directory.list),
                            !.match = <<directory.list[first]>>,
                            !.streamId = IF directory.list[first].id = Missing
                                         THEN NULL ELSE directory.list[first].id]

\* C18: a step of POST /resolve/stream changes neither the token store nor
\* the now-playing state nor the offer in flight, and its answer is the one
\* that the request body, the credential and the directory's reply determine,
\* whatever the two stores hold when the request starts and when it ends.
C18_ResolveIsStateless ==
    [][resolve' # resolve
       => /\ tokenStore' = tokenStore
          /\ nowPlaying' = nowPlaying
          /\ offer' = offer
          /\ resolve'.pc = "done"
               => resolve' = Answer(m3u8, livepushToken, upstream)
      ]_vars

\* a request is answered with no stream id while a token is in the store and
\* an artist is playing
C18_Witness ==
    /\ resolve.pc = "done" /\ resolve.status = 200
    /\ livepushToken /\ upstream.kind = "list" /\ resolve.match = <<>>
    /\ resolve.streamId = NULL
    /\ tokenStore # << >>
    /\ nowPlaying.artist_id = "colleenanthony"

(* ========================= binding of tokens ========================== *)
\* C19: a request keeps the artist it read from the now-playing state at its
\* start, and the SKU of that artist, until it ends, whatever POST /nowplaying
\* does meanwhile; the entry it stores is bound to that artist and to the id
\* of the first product of the catalog's reply to the query for that SKU; and
\* no step but a mint writes an entry.
C19_TokenBoundToRequest ==
    [][/\ (offer.pc = "idle" /\ offer'.pc = "await")
            => /\ offer'.artistId = nowPlaying.artist_id
               /\ offer'.sku = SkuLookup(nowPlaying.artist_id)
       /\ (offer.pc = "await" /\ offer'.pc = "await")
            => /\ offer'.artistId = offer.artistId
               /\ offer'.sku = offer.sku
               /\ resp'.route = "nowplaying" => tokenStore' = tokenStore
       /\ Minted
            => \E o \in CatalogOutcomes :
                  /\ OfferFinish(o, resp'.token)
                  /\ Picked(o) = {o.list[1]}
                  /\ tokenStore'[resp'.token] =
                        [product_id |-> o.list[1].id,
                         artist_id |-> offer.artistId,
                         createdAt |-> now]
       /\ \A k \in DOMAIN tokenStore' :
            (k \notin DOMAIN tokenStore \/ tokenStore'[k] # tokenStore[k])
            => Minted /\ k = resp'.token
      ]_vars

\* a token has been minted for the artist the request read at its start,
\* after POST /nowplaying switched to another artist during the catalog call
C19_Witness ==
    /\ resp.route = "offer" /\ resp.visible
    /\ resp.token \in DOMAIN tokenStore
    /\ tokenStore[resp.token].artist_id = "colleenanthony"
    /\ tokenStore[resp.token].product_id = 43
    /\ nowPlaying.artist_id = "unlisted"

====
